---- MODULE Spec2Model ----
(***************************************************************************)
(* koutput_reads_internal (src/rust/src/koutput_reads/mod.rs): the         *)
(* controller that turns a Kraken2 report, a Kraken2 classification output *)
(* and one or two FASTQ files into a compressed file of the reads of the   *)
(* requested taxa.  One action per statement of the function; the callees  *)
(* whose bodies live in other files of the crate (taxonomy_kreport,        *)
(* robj_to_tag_ranges, robj_to_option_str, koutput::parse_koutput,         *)
(* reads::parse_reads) are modelled from their documented contracts.       *)
(* Byte strings (&[u8], String) are sequences of one-character strings.    *)
(***************************************************************************)
EXTENDS Integers, Sequences, FiniteSets, TLC

VARIABLES
    input,                \* the arguments of the call and the files they name
    pc,                   \* the statement koutput_reads_internal is about to run
    tag_ranges,           \* how many of tag_ranges1, tag_ranges2 are bound
    compression_level,    \* Option<CompressionLvl>
    exclude,              \* Option<Vec<String>> after robj_to_option_str
    kreports,             \* Vec<Kreport>: [taxid, taxids]
    taxid_to_ancestors,   \* HashMap<&[u8], HashSet<&[u8]>>
    taxid_to_descendants, \* HashMap<&[u8], HashSet<&[u8]>>
    include_sets,         \* HashSet<&[u8]>
    exclude_aho,          \* Option<AhoCorasick>
    koutmap,              \* the MatchIndex: read id -> retained row
    result,               \* Option<Result<()>>: the value the call returns
    io,                   \* the files opened or created so far
    trace,                \* the statements run so far, each with its outcome
    koutput_calls,        \* the arguments of every call of parse_koutput
    reads_calls           \* the arguments of every call of parse_reads

vars == <<input, pc, tag_ranges, compression_level, exclude, kreports,
          taxid_to_ancestors, taxid_to_descendants, include_sets, exclude_aho,
          koutmap, result, io, trace, koutput_calls, reads_calls>>

----------------------------------------------------------------------------
(* Bounds of the model *)

\* taxa of the largest report
MaxTaxa == 3
\* evidence tokens of the largest classification output (all rows together)
MaxTokens == 2
\* taxa of the longest exclusion list
MaxExclude == 1

----------------------------------------------------------------------------
(* Values *)

None == [some |-> FALSE, v |-> <<>>]
Some(x) == [some |-> TRUE, v |-> x]
\* Result<T>: Ok(x) or Err(e)
Ok(x) == [tag |-> "Ok", v |-> x, e |-> ""]
Err(e) == [tag |-> "Err", v |-> <<>>, e |-> e]

\* the decimal text of n, as the byte string a report or an output row holds
DigitChars == <<"0", "1", "2", "3", "4", "5", "6", "7", "8", "9">>
RECURSIVE Dec(_)
Dec(n) == IF n < 10 THEN <<DigitChars[n + 1]>>
          ELSE Dec(n \div 10) \o <<DigitChars[(n % 10) + 1]>>

Range(s) == {s[i] : i \in 1..Len(s)}

SeqsUpTo(S, n) == UNION {[1..k -> S] : k \in 0..n}

----------------------------------------------------------------------------
(* The classification report and taxonomy_kreport (crate::kreport)          *)

\* A report is [ok, parent, self]: `parent[i]` is the parent of taxon i in the
\* report's tree (0: none), `self` tells whether a lineage ends with the taxon
\* itself, `ok` whether the file parses.  Taxon i is written Dec(i).
RECURSIVE AncestorChain(_, _)
AncestorChain(parent, i) ==
    IF parent[i] = 0 THEN <<>>
    ELSE AncestorChain(parent, parent[i]) \o <<Dec(parent[i])>>

\* One Kreport: its taxid and its lineage `taxids`, root first.
ReportEntry(report, i) ==
    [taxid |-> Dec(i),
     taxids |-> AncestorChain(report.parent, i)
                \o (IF report.self THEN <<Dec(i)>> ELSE <<>>)]

ReportEntries(report) == [i \in 1..Len(report.parent) |-> ReportEntry(report, i)]

RECURSIVE SelectEntries(_, _)
SelectEntries(entries, taxonomy) ==
    IF entries = <<>> THEN <<>>
    ELSE LET e == Head(entries)
             rest == SelectEntries(Tail(entries), taxonomy)
         IN IF e.taxid \in taxonomy \/ Range(e.taxids) \cap taxonomy # {}
            THEN <<e>> \o rest ELSE rest

\* taxonomy_kreport(kreport, taxonomy): the report entries matching the taxa of
\* interest (a taxon of interest, or an entry whose lineage passes through
\* one), each with its lineage; an error when the report is malformed or a
\* requested taxon has no entry.
taxonomy_kreport(report, taxonomy) ==
    LET entries == ReportEntries(report) IN
    IF ~report.ok THEN Err("TaxonomyParseError")
    ELSE IF \E t \in taxonomy : \A i \in 1..Len(entries) : entries[i].taxid # t
    THEN Err("TaxonomyParseError")
    ELSE Ok(SelectEntries(entries, taxonomy))

----------------------------------------------------------------------------
(* The closure: mod.rs lines 138-181                                        *)

\* collect::<HashMap>() of (key, value) pairs: a later pair replaces an earlier
\* one with the same key.
LastIndexOf(krs, t) ==
    CHOOSE i \in 1..Len(krs) :
        krs[i].taxid = t /\ \A j \in (i + 1)..Len(krs) : krs[j].taxid # t

TaxidToAncestors(krs) ==
    [t \in {krs[i].taxid : i \in 1..Len(krs)} |->
        Range(krs[LastIndexOf(krs, t)].taxids)]

TaxidToDescendantsNegated(krs, ancestors) ==
    [t \in {krs[i].taxid : i \in 1..Len(krs)} |->
        {child \in DOMAIN ancestors : t \notin ancestors[child]}]

TaxidToDescendantsNotInverted(krs, ancestors) ==
    [t \in {krs[i].taxid : i \in 1..Len(krs)} |-> ancestors[t]]

TaxidToDescendants(krs, ancestors) ==
    [t \in {krs[i].taxid : i \in 1..Len(krs)} |->
        {child \in DOMAIN ancestors : t \in ancestors[child]}]

IncludeSets(krs, descendants) ==
    UNION {descendants[krs[i].taxid] :
              i \in {j \in 1..Len(krs) : krs[j].taxid \in DOMAIN descendants}}

----------------------------------------------------------------------------
(* The exclusion matcher: mod.rs lines 191-206                              *)

ExcludePattern(taxid) == taxid \o <<":">>

ExcludePatterns(v) == [i \in 1..Len(v) |-> ExcludePattern(v[i])]

\* AhoCorasick::builder().kind(DFA).build(patterns): the automaton of the
\* patterns (any patterns, none and the empty one included); an error only when
\* the automaton outgrows the builder's limits, which `limit` stands for.
AhoCorasick_build(patterns, limit) ==
    IF limit THEN Err("PatternCompileError") ELSE Ok(patterns)

\* exclude.map(|v| build(patterns of v)).transpose()
ExcludeAhoDropped(excl, limit) == Ok(None)

ExcludeAho(excl, limit) ==
    IF ~excl.some THEN Ok(None)
    ELSE LET r == AhoCorasick_build(ExcludePatterns(excl.v), limit)
         IN IF r.tag = "Err" THEN r ELSE Ok(Some(r.v))

Contains(haystack, needle) ==
    \E i \in 0..(Len(haystack) - Len(needle)) :
        SubSeq(haystack, i + 1, i + Len(needle)) = needle

\* AhoCorasick::is_match: some pattern occurs somewhere in the haystack
is_match(aho, haystack) == \E k \in 1..Len(aho) : Contains(haystack, aho[k])

----------------------------------------------------------------------------
(* The classification output and koutput::parse_koutput                     *)

\* An evidence string: tokens <taxid-or-sentinel>:<count> separated by spaces.
RECURSIVE EvidenceString(_)
EvidenceString(tokens) ==
    IF tokens = <<>> THEN <<>>
    ELSE LET t == Head(tokens).taxid \o <<":">> \o Head(tokens).count
         IN IF Len(tokens) = 1 THEN t
            ELSE t \o <<" ">> \o EvidenceString(Tail(tokens))

ReadId(i) == <<"r">> \o Dec(i)

\* The rows of the file: row i of `rows` under read id ReadId(i).
KoutputFile(rows) ==
    [i \in 1..Len(rows) |->
        [ok |-> rows[i].ok, id |-> ReadId(i), taxid |-> rows[i].taxid,
         evidence |-> EvidenceString(rows[i].tokens)]]

\* The per-record decision rule.
Retained(row, include, aho) ==
    /\ row.taxid \in include
    /\ (~aho.some \/ ~is_match(aho.v, row.evidence))

ZeroConfig(batch, chunk, nqueue, threads) ==
    batch = 0 \/ chunk = 0 \/ threads = 0 \/ (nqueue.some /\ nqueue.v = 0)

\* parse_koutput(koutput, include_sets, exclude_aho, batch, nqueue, threads):
\* every result the call may return.  A malformed row aborts the stage; what the
\* stage does with a zero batch, queue or thread count is not visible, so both
\* a fail-fast error and a normal run are possible.
parse_koutput(file, include, aho, batch, nqueue, threads) ==
    LET normal ==
            IF \E i \in 1..Len(file) : ~file[i].ok THEN Err("RecordParseError")
            ELSE LET kept == {i \in 1..Len(file) : Retained(file[i], include, aho)}
                 IN Ok([id \in {file[i].id : i \in kept} |->
                          LET i == CHOOSE j \in kept : file[j].id = id
                          IN [taxid |-> file[i].taxid, evidence |-> file[i].evidence]])
    IN IF ZeroConfig(batch, 1, nqueue, threads)
       THEN {Err("InvalidConfigError"), normal}
       ELSE {normal}

\* reads::parse_reads(...): every result the call may return, with the files it
\* touches: the sequence files are opened and the output file is created, then
\* the stage succeeds or fails as the files decide.
parse_reads(outcome, fq2, batch, chunk, nqueue, threads) ==
    LET files == {"fq1", "ofile"} \cup (IF fq2 THEN {"fq2"} ELSE {})
        normal == [io |-> files,
                   res |-> IF outcome = "Ok" THEN Ok(<<>>) ELSE Err(outcome)]
    IN IF ZeroConfig(batch, chunk, nqueue, threads)
       THEN {[io |-> {}, res |-> Err("InvalidConfigError")], normal}
       ELSE {normal}

\* CompressionLvl::new(level): Ok for a level libdeflate knows (fastest() is 1,
\* best() is 12), an error for any other
MinCompressionLvl == 1
MaxCompressionLvl == 12
CompressionLvl_newAny(level) == Ok(level)

CompressionLvl_new(level) ==
    IF MinCompressionLvl <= level /\ level <= MaxCompressionLvl
    THEN Ok(level) ELSE Err("InvalidCompressionLevel")

\* robj_to_tag_ranges(&ranges): the ranges, or an error when the R object is
\* not a list of ranges
robj_to_tag_ranges(ranges_ok) ==
    IF ranges_ok THEN Ok("ranges") ELSE Err("TagRangeError")

\* robj_to_option_str(&exclude): NULL is None, a character vector is Some, any
\* other R object is an error
robj_to_option_str(robj) ==
    CASE robj.kind = "null" -> Ok(None)
      [] robj.kind = "character" -> Ok(Some(robj.v))
      [] OTHER -> Err("ExcludeParseError")

\* The `?` operator: an Err leaves the function at once.
IsErrNever(r) == FALSE

IsErr(r) == r.tag = "Err"

\* koutmap.is_empty()
IsEmptyNever(m) == FALSE

IsEmpty(m) == DOMAIN m = {}

----------------------------------------------------------------------------
(* The inputs of a call                                                     *)

Token(taxid, count) == [taxid |-> taxid, count |-> count]

\* the tokens of the evidence strings: 2:5, 3:10, 15:3 and 562:3
EvTokens == {Token(<<"2">>, <<"5">>), Token(<<"3">>, <<"1", "0">>),
             Token(<<"1", "5">>, <<"3">>), Token(<<"5", "6", "2">>, <<"3">>)}

\* the taxa rows are assigned to: one of the report, one outside it
RowTaxids == {<<"3">>, <<"9">>}

BadRow == [ok |-> FALSE, taxid |-> <<>>, tokens |-> <<>>]

RowsOfCost(c) ==
    {[ok |-> TRUE, taxid |-> t, tokens |-> e] : t \in RowTaxids, e \in [1..c -> EvTokens]}
    \cup (IF c = 1 THEN {BadRow} ELSE {})

\* the classification outputs holding at most b tokens
RECURSIVE RowFiles(_)
RowFiles(b) ==
    {<<>>} \cup UNION {{<<r>> \o f : r \in RowsOfCost(c), f \in RowFiles(b - c)} : c \in 1..b}

\* the taxa an exclusion list may name: the empty id, 2 and 5
ExcludeIds == {<<>>, <<"2">>, <<"5">>}

RNull == [kind |-> "null", v |-> <<>>]
RCharacter(v) == [kind |-> "character", v |-> v]
ROther == [kind |-> "other", v |-> <<>>]

ExcludeLists == {RCharacter(v) : v \in SeqsUpTo(ExcludeIds, MaxExclude)}

Parents(n) == {p \in [1..n -> 0..(n - 1)] : \A i \in 1..n : p[i] < i}

Reports == {[ok |-> TRUE, parent |-> p, self |-> s] :
               p \in UNION {Parents(n) : n \in 1..MaxTaxa}, s \in BOOLEAN}

Taxonomies == (SUBSET {Dec(i) : i \in 1..MaxTaxa}) \ {{}}

\* the report {1 -> root, 2 -> 1, 3 -> 1}
ReportA(self) == [ok |-> TRUE, parent |-> <<0, 1, 1>>, self |-> self]

RowA == [ok |-> TRUE, taxid |-> <<"3">>, tokens |-> <<Token(<<"3">>, <<"1", "0">>)>>]

\* a row of a taxon outside the report
RowOut == [ok |-> TRUE, taxid |-> <<"9">>, tokens |-> <<Token(<<"3">>, <<"1", "0">>)>>]

DefaultInput ==
    [ranges1_ok |-> TRUE, ranges2_ok |-> TRUE, compression_level |-> 6,
     exclude |-> RNull, taxonomy |-> {<<"1">>}, report |-> ReportA(TRUE),
     rows |-> <<RowA>>, fq2 |-> FALSE,
     koutput_batch |-> 1, fastq_batch |-> 1, chunk_bytes |-> 1,
     nqueue |-> None, threads |-> 1,
     aho_limit |-> FALSE, reads_outcome |-> "Ok"]

\* calls that differ in what can stop the controller
ControlInputs ==
    {[DefaultInput EXCEPT !.ranges1_ok = r1, !.ranges2_ok = r2,
                          !.compression_level = lvl, !.exclude = ex,
                          !.report = [ReportA(TRUE) EXCEPT !.ok = rep],
                          !.rows = rows, !.fq2 = fq2,
                          !.aho_limit = lim, !.reads_outcome = out] :
        r1 \in BOOLEAN, r2 \in BOOLEAN,
        lvl \in {-1, MinCompressionLvl, MaxCompressionLvl, MaxCompressionLvl + 1},
        ex \in {RNull, ROther, RCharacter(<<<<"2">>>>)},
        rep \in BOOLEAN, rows \in {<<>>, <<RowA>>, <<RowOut>>, <<BadRow>>}, fq2 \in BOOLEAN,
        lim \in BOOLEAN, out \in {"Ok", "IoError", "PairingMismatchError"}}

\* calls that differ in the batch sizes, the queue depth and the thread count
ConfigInputs ==
    {[DefaultInput EXCEPT !.koutput_batch = kb, !.fastq_batch = fb,
                          !.chunk_bytes = cb, !.nqueue = nq, !.threads = th,
                          !.rows = rows] :
        kb \in 0..1, fb \in 0..1, cb \in 0..1, th \in 0..1,
        nq \in {None, Some(0), Some(1)}, rows \in {<<>>, <<RowA>>}}

\* calls that differ in the report and the taxa of interest
ClosureInputs ==
    {[DefaultInput EXCEPT !.report = rep, !.taxonomy = tax] :
        rep \in Reports, tax \in Taxonomies}

\* calls that differ in the exclusion list and the classification output
FilterInputs ==
    {[DefaultInput EXCEPT !.report = ReportA(self), !.exclude = ex, !.rows = rows] :
        self \in BOOLEAN, ex \in {RNull} \cup ExcludeLists, rows \in RowFiles(MaxTokens)}

Inputs == ControlInputs \cup ConfigInputs \cup ClosureInputs \cup FilterInputs

----------------------------------------------------------------------------
(* koutput_reads_internal                                                   *)

NoResult == [tag |-> "None", v |-> ""]

Init ==
    /\ input \in Inputs
    /\ pc = "robj_to_tag_ranges"
    /\ tag_ranges = 0
    /\ compression_level = None
    /\ exclude = None
    /\ kreports = <<>>
    /\ taxid_to_ancestors = <<>>
    /\ taxid_to_descendants = <<>>
    /\ include_sets = {}
    /\ exclude_aho = None
    /\ koutmap = <<>>
    /\ result = NoResult
    /\ io = {}
    /\ trace = <<>>
    /\ koutput_calls = <<>>
    /\ reads_calls = <<>>

\* the statement `step` has run, and returned r
Ran(step, r) == trace' = Append(trace, [step |-> step, ok |-> r.tag = "Ok"])

\* `return r`
Return(r) ==
    /\ result' = [tag |-> r.tag, v |-> r.e]
    /\ pc' = "return"

\* lines 129-130
ParseTagRanges ==
    /\ pc = "robj_to_tag_ranges"
    /\ LET r1 == robj_to_tag_ranges(input.ranges1_ok)
           r2 == robj_to_tag_ranges(input.ranges2_ok)
       IN IF IsErr(r1)
          THEN Ran("robj_to_tag_ranges", r1) /\ Return(r1) /\ UNCHANGED tag_ranges
          ELSE IF IsErr(r2)
          THEN Ran("robj_to_tag_ranges", r2) /\ Return(r2) /\ tag_ranges' = 1
          ELSE /\ Ran("robj_to_tag_ranges", IF r1.tag = "Err" THEN r1 ELSE r2)
               /\ tag_ranges' = 2
               /\ pc' = "CompressionLvl_new"
               /\ UNCHANGED result
    /\ UNCHANGED <<input, compression_level, exclude, kreports, taxid_to_ancestors,
                   taxid_to_descendants, include_sets, exclude_aho, koutmap, io,
                   koutput_calls, reads_calls>>

\* lines 131-132
ValidateCompressionLevel ==
    /\ pc = "CompressionLvl_new"
    /\ LET r == CompressionLvl_new(input.compression_level)
       IN /\ Ran("CompressionLvl_new", r)
          /\ IF IsErr(r)
             THEN Return(r) /\ UNCHANGED compression_level
             ELSE /\ compression_level' = Some(r.v)
                  /\ pc' = "robj_to_option_str"
                  /\ UNCHANGED result
    /\ UNCHANGED <<input, tag_ranges, exclude, kreports, taxid_to_ancestors,
                   taxid_to_descendants, include_sets, exclude_aho, koutmap, io,
                   koutput_calls, reads_calls>>

\* lines 133-134
ParseExclude ==
    /\ pc = "robj_to_option_str"
    /\ LET r == robj_to_option_str(input.exclude)
       IN /\ Ran("robj_to_option_str", r)
          /\ IF IsErr(r)
             THEN Return(r) /\ UNCHANGED exclude
             ELSE /\ exclude' = r.v
                  /\ pc' = "taxonomy_kreport"
                  /\ UNCHANGED result
    /\ UNCHANGED <<input, tag_ranges, compression_level, kreports,
                   taxid_to_ancestors, taxid_to_descendants, include_sets,
                   exclude_aho, koutmap, io, koutput_calls, reads_calls>>

\* line 135
ParseKreport ==
    /\ pc = "taxonomy_kreport"
    /\ LET r == taxonomy_kreport(input.report, input.taxonomy)
       IN /\ Ran("taxonomy_kreport", r)
          /\ io' = io \cup {"kreport"}
          /\ IF IsErr(r)
             THEN Return(r) /\ UNCHANGED kreports
             ELSE /\ kreports' = r.v
                  /\ pc' = "taxid_to_ancestors"
                  /\ UNCHANGED result
    /\ UNCHANGED <<input, tag_ranges, compression_level, exclude,
                   taxid_to_ancestors, taxid_to_descendants, include_sets,
                   exclude_aho, koutmap, koutput_calls, reads_calls>>

\* lines 138-150
BuildAncestors ==
    /\ pc = "taxid_to_ancestors"
    /\ taxid_to_ancestors' = TaxidToAncestors(kreports)
    /\ Ran("taxid_to_ancestors", Ok(""))
    /\ pc' = "taxid_to_descendants"
    /\ UNCHANGED <<input, tag_ranges, compression_level, exclude, kreports,
                   taxid_to_descendants, include_sets, exclude_aho, koutmap,
                   result, io, koutput_calls, reads_calls>>

\* lines 154-173
BuildDescendants ==
    /\ pc = "taxid_to_descendants"
    /\ taxid_to_descendants' = TaxidToDescendants(kreports, taxid_to_ancestors)
    /\ Ran("taxid_to_descendants", Ok(""))
    /\ pc' = "include_sets"
    /\ UNCHANGED <<input, tag_ranges, compression_level, exclude, kreports,
                   taxid_to_ancestors, include_sets, exclude_aho, koutmap,
                   result, io, koutput_calls, reads_calls>>

\* lines 175-181
BuildIncludeSets ==
    /\ pc = "include_sets"
    /\ include_sets' = IncludeSets(kreports, taxid_to_descendants)
    /\ Ran("include_sets", Ok(""))
    /\ pc' = "exclude_aho"
    /\ UNCHANGED <<input, tag_ranges, compression_level, exclude, kreports,
                   taxid_to_ancestors, taxid_to_descendants, exclude_aho, koutmap,
                   result, io, koutput_calls, reads_calls>>

\* lines 191-206
BuildExcludeAho ==
    /\ pc = "exclude_aho"
    /\ LET r == ExcludeAho(exclude, input.aho_limit)
       IN /\ Ran("exclude_aho", r)
          /\ IF IsErr(r)
             THEN Return(r) /\ UNCHANGED exclude_aho
             ELSE /\ exclude_aho' = r.v
                  /\ pc' = "parse_koutput"
                  /\ UNCHANGED result
    /\ UNCHANGED <<input, tag_ranges, compression_level, exclude, kreports,
                   taxid_to_ancestors, taxid_to_descendants, include_sets,
                   koutmap, io, koutput_calls, reads_calls>>

\* lines 209-216
ParseKoutput ==
    /\ pc = "parse_koutput"
    /\ koutput_calls' = Append(koutput_calls,
                               [koutput_batch |-> input.koutput_batch,
                                nqueue |-> input.nqueue,
                                threads |-> input.threads])
    /\ \E r \in parse_koutput(KoutputFile(input.rows), include_sets, exclude_aho,
                              input.koutput_batch, input.nqueue, input.threads) :
          /\ Ran("parse_koutput", r)
          /\ io' = IF r.e = "InvalidConfigError" THEN io ELSE io \cup {"koutput"}
          /\ IF IsErr(r)
             THEN Return(r) /\ UNCHANGED koutmap
             ELSE /\ koutmap' = r.v
                  /\ pc' = "is_empty"
                  /\ UNCHANGED result
    /\ UNCHANGED <<input, tag_ranges, compression_level, exclude, kreports,
                   taxid_to_ancestors, taxid_to_descendants, include_sets,
                   exclude_aho, reads_calls>>

\* lines 218-221
CheckEmpty ==
    /\ pc = "is_empty"
    /\ Ran("is_empty", Ok(""))
    /\ IF IsEmpty(koutmap)
       THEN Return(Ok(""))
       ELSE pc' = "parse_reads" /\ UNCHANGED result
    /\ UNCHANGED <<input, tag_ranges, compression_level, exclude, kreports,
                   taxid_to_ancestors, taxid_to_descendants, include_sets,
                   exclude_aho, koutmap, io, koutput_calls, reads_calls>>

\* lines 224-237
ParseReads ==
    /\ pc = "parse_reads"
    /\ reads_calls' = Append(reads_calls,
                             [koutmap |-> koutmap,
                              fastq_batch |-> input.fastq_batch,
                              chunk_bytes |-> input.chunk_bytes,
                              nqueue |-> input.nqueue,
                              threads |-> input.threads])
    /\ \E o \in parse_reads(input.reads_outcome, input.fq2, input.fastq_batch,
                            input.chunk_bytes, input.nqueue, input.threads) :
          /\ Ran("parse_reads", o.res)
          /\ io' = io \cup o.io
          /\ Return(o.res)
    /\ UNCHANGED <<input, tag_ranges, compression_level, exclude, kreports,
                   taxid_to_ancestors, taxid_to_descendants, include_sets,
                   exclude_aho, koutmap, koutput_calls>>

Next ==
    \/ ParseTagRanges
    \/ ValidateCompressionLevel
    \/ ParseExclude
    \/ ParseKreport
    \/ BuildAncestors
    \/ BuildDescendants
    \/ BuildIncludeSets
    \/ BuildExcludeAho
    \/ ParseKoutput
    \/ CheckEmpty
    \/ ParseReads

Spec == Init /\ [][Next]_vars

----------------------------------------------------------------------------
(* Properties                                                               *)

Returned == pc = "return"

\* the statement `step` has run and succeeded
Passed(step) == \E k \in 1..Len(trace) : trace[k].step = step /\ trace[k].ok

\* the statement `step` has run
Reached(step) == \E k \in 1..Len(trace) : trace[k].step = step

ExcludeSupplied == input.exclude.kind = "character"

ExcludedTaxa == IF ExcludeSupplied THEN Range(input.exclude.v) ELSE {}

File == KoutputFile(input.rows)

\* evidence string s holds "T:" for an excluded taxon T
MentionsExcluded(s) == \E t \in ExcludedTaxa : Contains(s, t \o <<":">>)

SequenceFiles == {"fq1", "fq2", "ofile"}

LevelInRange ==
    /\ MinCompressionLvl <= input.compression_level
    /\ input.compression_level <= MaxCompressionLvl

RangesOk == input.ranges1_ok /\ input.ranges2_ok

ZeroInput ==
    ZeroConfig(input.koutput_batch, input.chunk_bytes, input.nqueue, input.threads)
    \/ input.fastq_batch = 0

\* the statements of koutput_reads_internal, in program order
Order == <<"robj_to_tag_ranges", "CompressionLvl_new", "robj_to_option_str",
           "taxonomy_kreport", "taxid_to_ancestors", "taxid_to_descendants",
           "include_sets", "exclude_aho", "parse_koutput", "is_empty",
           "parse_reads">>

\* C1: the exclusion predicate built from the exclusion list does not match an
\* evidence string none of whose tokens belongs to an excluded taxon, i.e. when
\* an excluded taxon occurs at most as a part of another taxon's id (5 in 562
\* or in 15).
C1_NoMatchInsideAnotherTaxon ==
    (exclude_aho.some /\ <<>> \notin ExcludedTaxa) =>
        \A i \in 1..Len(input.rows) :
            (/\ input.rows[i].ok
             /\ \A k \in 1..Len(input.rows[i].tokens) :
                    input.rows[i].tokens[k].taxid \notin ExcludedTaxa)
            => ~is_match(exclude_aho.v, File[i].evidence)

\* C2: once the filter has returned, a row of the classification output is in
\* the MatchIndex iff its taxon is in the IncludeSet and either no exclusion
\* list was supplied or its evidence string mentions no excluded taxon; with
\* exclude = {2}, a row of taxon 3 whose evidence holds 2:5 is dropped and a
\* row of taxon 3 whose evidence is 3:10 is kept.
C2_RetainedIff ==
    Passed("parse_koutput") =>
        /\ \A i \in 1..Len(File) :
              (File[i].id \in DOMAIN koutmap) <=>
                  (/\ File[i].taxid \in include_sets
                   /\ (~ExcludeSupplied \/ ~MentionsExcluded(File[i].evidence)))
        /\ (input.exclude = RCharacter(<<<<"2">>>>) /\ <<"3">> \in include_sets) =>
              \A i \in 1..Len(File) :
                  File[i].taxid = <<"3">> =>
                      /\ Token(<<"2">>, <<"5">>) \in Range(input.rows[i].tokens)
                            => File[i].id \notin DOMAIN koutmap
                      /\ input.rows[i].tokens = <<Token(<<"3">>, <<"1", "0">>)>>
                            => File[i].id \in DOMAIN koutmap

C2_Witness ==
    /\ Passed("parse_koutput")
    /\ input.exclude = RCharacter(<<<<"2">>>>)
    /\ Len(input.rows) = 2
    /\ input.rows[1].taxid = <<"3">>
    /\ input.rows[1].tokens = <<Token(<<"2">>, <<"5">>)>>
    /\ input.rows[2].tokens = <<Token(<<"3">>, <<"1", "0">>)>>
    /\ DOMAIN koutmap = {ReadId(2)}

\* C3: once the IncludeSet is built, every report entry whose lineage holds a
\* requested taxon is in it.
C3_ClosureComplete ==
    Passed("include_sets") =>
        \A x \in input.taxonomy :
            \A i \in 1..Len(input.report.parent) :
                x \in Range(ReportEntry(input.report, i).taxids)
                    => Dec(i) \in include_sets

C3_Witness ==
    /\ Passed("include_sets")
    /\ ~input.report.self
    /\ \E x \in input.taxonomy : \E i \in 1..Len(input.report.parent) :
          /\ Dec(i) \notin input.taxonomy
          /\ Len(AncestorChain(input.report.parent, i)) = 2
          /\ x = AncestorChain(input.report.parent, i)[1]
          /\ Dec(i) \in include_sets

\* C4: once the IncludeSet is built, it holds only taxa of the report that are
\* requested or have a requested taxon among their ancestors in the report's
\* tree, and it is the union of the descendant sets of the requested taxa.
C4_ClosureSound ==
    Passed("include_sets") =>
        /\ \A y \in include_sets :
              \E i \in 1..Len(input.report.parent) :
                  /\ y = Dec(i)
                  /\ \/ y \in input.taxonomy
                     \/ Range(AncestorChain(input.report.parent, i))
                            \cap input.taxonomy # {}
        /\ include_sets =
              UNION {taxid_to_descendants[t] :
                        t \in input.taxonomy \cap DOMAIN taxid_to_descendants}

C4_Witness ==
    /\ Passed("include_sets")
    /\ include_sets # {}
    /\ \E i \in 1..Len(input.report.parent) :
          /\ Dec(i) \notin include_sets
          /\ Dec(i) \notin input.taxonomy
          /\ input.report.parent[i] # 0
    /\ Len(kreports) < Len(input.report.parent)

\* C5: once the IncludeSet is built, every requested taxon (each has a report
\* entry, or taxonomy_kreport would have failed) is in it, whether or not its
\* lineage lists the taxon itself.
C5_SelfIncluded ==
    Passed("include_sets") => input.taxonomy \subseteq include_sets

\* C6: when the filter has returned an empty MatchIndex, the extraction stage is
\* never called, no sequence file is opened, no output file is created, and the
\* call returns Ok.
C6_EmptyIndexSkipsExtraction ==
    (Passed("parse_koutput") /\ DOMAIN koutmap = {}) =>
        /\ reads_calls = <<>>
        /\ io \cap SequenceFiles = {}
        /\ ~Reached("parse_reads")
        /\ Returned => result.tag = "Ok"

C6_Witness ==
    /\ Returned
    /\ Passed("parse_koutput")
    /\ input.rows # <<>>
    /\ DOMAIN koutmap = {}
    /\ result.tag = "Ok"
    /\ input.fq2

\* C7 as stated: a compression level out of range makes the call fail with the
\* invalid-compression-level error, and no file is ever opened or created.
C7_InvalidLevelFailsWithConfigError ==
    ~LevelInRange =>
        /\ io = {}
        /\ koutput_calls = <<>> /\ reads_calls = <<>>
        /\ Returned => (result.tag = "Err" /\ result.v = "InvalidCompressionLevel")

\* C7, amended: with a compression level out of range no statement after the
\* level check runs, so no file is opened or created and no stage is called;
\* the call fails, with the invalid-compression-level error when both tag-range
\* arguments parse and with the tag-range error otherwise.
C7_InvalidLevelFailsBeforeIO ==
    ~LevelInRange =>
        /\ io = {}
        /\ koutput_calls = <<>> /\ reads_calls = <<>>
        /\ \A k \in 1..Len(trace) :
              trace[k].step \in {"robj_to_tag_ranges", "CompressionLvl_new"}
        /\ Returned =>
              /\ result.tag = "Err"
              /\ RangesOk => result.v = "InvalidCompressionLevel"
              /\ ~RangesOk => result.v = "TagRangeError"

C7_Witness ==
    /\ ~LevelInRange
    /\ Returned
    /\ result.v = "InvalidCompressionLevel"
    /\ trace[Len(trace)].step = "CompressionLvl_new"

\* C8: with a zero batch size, chunk size, queue depth or thread count, the
\* report is never parsed, neither stage is ever called, and the call fails
\* with the invalid-configuration error.
C8_ZeroConfigRejected ==
    ZeroInput =>
        /\ "kreport" \notin io
        /\ koutput_calls = <<>> /\ reads_calls = <<>>
        /\ Returned => (result.tag = "Err" /\ result.v = "InvalidConfigError")

\* C9: with an exclusion list that is empty or names an empty taxon id, no
\* predicate is built, the filter is never called, and the call fails with the
\* pattern-compile error.
C9_EmptyPatternRejected ==
    (ExcludeSupplied /\ (input.exclude.v = <<>> \/ <<>> \in ExcludedTaxa)) =>
        /\ ~exclude_aho.some
        /\ koutput_calls = <<>>
        /\ Returned => (result.tag = "Err" /\ result.v = "PatternCompileError")

\* C10: the statements run in program order; each stage is called at most once;
\* the extraction stage is called only after the filter has returned Ok with a
\* non-empty MatchIndex, which is the index the extraction was handed and is
\* unchanged since; a failed statement is the last one run, and the call
\* returns its error.
C10_StageOrdering ==
    /\ Len(trace) <= Len(Order)
    /\ \A k \in 1..Len(trace) : trace[k].step = Order[k]
    /\ Len(koutput_calls) <= 1 /\ Len(reads_calls) <= 1
    /\ Len(koutput_calls) = 1 <=> Reached("parse_koutput")
    /\ Len(reads_calls) = 1 <=> Reached("parse_reads")
    /\ reads_calls # <<>> =>
          /\ Passed("parse_koutput")
          /\ DOMAIN koutmap # {}
          /\ reads_calls[1].koutmap = koutmap
    /\ io \cap SequenceFiles # {} => reads_calls # <<>>
    /\ \A k \in 1..Len(trace) :
          ~trace[k].ok => (k = Len(trace) /\ Returned /\ result.tag = "Err")
    /\ result.tag = "Err" => (Returned /\ ~trace[Len(trace)].ok)
    /\ Returned <=> result.tag # "None"

C10_Witness ==
    /\ Returned
    /\ result.tag = "Ok"
    /\ Len(reads_calls) = 1
    /\ Len(trace) = Len(Order)
    /\ io = {"kreport", "koutput", "fq1", "fq2", "ofile"}
====
